---- MODULE Spec2Model ----
(***************************************************************************)
(* Reed-Solomon erasure coding over GF(2^8): the field tables and          *)
(* arithmetic (galois.rs), the byte matrix algebra with Gauss-Jordan       *)
(* inversion (matrix.rs) and the codec new / encode / decode (lib.rs).     *)
(*                                                                         *)
(* Vec<T> is a TLA+ sequence: the element the code calls v[i] is v[i+1]    *)
(* here.  A call ends in one of three ways, told apart by "kind":          *)
(*   Ok(val), Err(val = the Error variant), Panic(val = the message).      *)
(***************************************************************************)
EXTENDS Integers, Sequences, FiniteSets, TLC

VARIABLES rs, op, input, result, encoded

vars == <<rs, op, input, result, encoded>>

Ok(v) == [kind |-> "Ok", val |-> v]
Err(e) == [kind |-> "Err", val |-> e]
Panic(m) == [kind |-> "Panic", val |-> m]

None == [kind |-> "None"]

-----------------------------------------------------------------------------
(* galois.rs *)

FIELD_SIZE == 256

EXP_TABLE_SIZE == FIELD_SIZE * 2 - 2

IRREDUCIBLE_POLYNOMIAL == 29

Bytes == 0..(FIELD_SIZE - 1)

RECURSIVE XorBits(_, _)
XorBits(a, b) ==
    IF a = 0 THEN b
    ELSE IF b = 0 THEN a
    ELSE (((a % 2) + (b % 2)) % 2) + 2 * XorBits(a \div 2, b \div 2)

(* a ^ b on bytes, tabulated once *)
XorTable == [a \in Bytes |-> [b \in Bytes |-> XorBits(a, b)]]

Xor(a, b) == XorTable[a][b]

LogStep_no_reduction(st, irre_poly) ==
    LET shifted == st.b * 2
    IN  [res |-> [st.res EXCEPT ![st.b] = st.log],
         b   |-> IF FIELD_SIZE <= shifted THEN shifted - FIELD_SIZE
                 ELSE shifted,
         log |-> st.log + 1]

(* one iteration of the loop of gen_log_table: st holds res (indexed by   *)
(* the field element 0..255), the element b and the loop counter log      *)
LogStep(st, irre_poly) ==
    LET shifted == st.b * 2
    IN  [res |-> [st.res EXCEPT ![st.b] = st.log],
         b   |-> IF FIELD_SIZE <= shifted
                 THEN Xor(shifted - FIELD_SIZE, irre_poly)
                 ELSE shifted,
         log |-> st.log + 1]

(* at most n consecutive iterations of "for log in 0..FIELD_SIZE - 1",    *)
(* run as two halves                                                       *)
RECURSIVE LogLoop(_, _, _)
LogLoop(st, n, irre_poly) ==
    IF n = 0 \/ st.log >= FIELD_SIZE - 1 THEN st
    ELSE IF n = 1 THEN LogStep(st, irre_poly)
    ELSE LogLoop(LogLoop(st, n \div 2, irre_poly), n - (n \div 2), irre_poly)

gen_log_table(irre_poly) ==
    LogLoop([res |-> [i \in Bytes |-> 0], b |-> 1, log |-> 0],
            FIELD_SIZE - 1, irre_poly).res

ExpStep_single_copy(st, log_tab) ==
    [res |-> [st.res EXCEPT ![log_tab[st.i]] = st.i], i |-> st.i + 1]

(* one iteration of the loop of gen_exp_table: st holds res (indexed      *)
(* 0..509) and the loop counter i                                         *)
ExpStep(st, log_tab) ==
    LET log == log_tab[st.i]
    IN  [res |-> [st.res EXCEPT ![log] = st.i, ![log + FIELD_SIZE - 1] = st.i],
         i   |-> st.i + 1]

(* at most n consecutive iterations of "for i in 1..FIELD_SIZE" *)
RECURSIVE ExpLoop(_, _, _)
ExpLoop(st, n, log_tab) ==
    IF n = 0 \/ st.i >= FIELD_SIZE THEN st
    ELSE IF n = 1 THEN ExpStep(st, log_tab)
    ELSE ExpLoop(ExpLoop(st, n \div 2, log_tab), n - (n \div 2), log_tab)

gen_exp_table(log_tab) ==
    ExpLoop([res |-> [i \in 0..(EXP_TABLE_SIZE - 1) |-> 0], i |-> 1],
            FIELD_SIZE - 1, log_tab).res

(* GaloisField::new: the two tables of the one field every codec uses *)
log_table == gen_log_table(IRREDUCIBLE_POLYNOMIAL)

exp_table == gen_exp_table(log_table)

add(a, b) == Xor(a, b)

mul_without_zero_test(a, b) == exp_table[log_table[a] + log_table[b]]

mul_integer_product(a, b) == (a * b) % FIELD_SIZE

mul(a, b) ==
    IF a = 0 \/ b = 0 THEN 0
    ELSE exp_table[log_table[a] + log_table[b]]

(* the loop "while 255 <= log_res { log_res -= 255 }" of exp *)
RECURSIVE ReduceLog(_)
ReduceLog(log_res) ==
    IF 255 <= log_res THEN ReduceLog(log_res - 255) ELSE log_res

exp_zero_base_first(a, n) ==
    IF a = 0 THEN 0
    ELSE IF n = 0 THEN 1
    ELSE exp_table[ReduceLog(log_table[a] * n)]

exp(a, n) ==
    IF n = 0 THEN 1
    ELSE IF a = 0 THEN 0
    ELSE exp_table[ReduceLog(log_table[a] * n)]

(* GaloisField::div is called by gauss_elim but galois.rs does not define  *)
(* it; this is the division the specification describes.  gauss_elim only  *)
(* calls it with a non-zero divisor.                                       *)
div(a, b) ==
    IF a = 0 THEN 0
    ELSE exp_table[(log_table[a] - log_table[b] + 255) % 255]

-----------------------------------------------------------------------------
(* matrix.rs: a Matrix is [rows, cols, data], data a sequence of rows *)

Matrix(rows, cols, data) == [rows |-> rows, cols |-> cols, data |-> data]

Matrix_new(rows, cols) ==
    Matrix(rows, cols, [r \in 1..rows |-> [c \in 1..cols |-> 0]])

new_from_data(data) == Matrix(Len(data), Len(data[1]), data)

new_identity(size) ==
    Matrix(size, size,
           [r \in 1..size |-> [c \in 1..size |-> IF r = c THEN 1 ELSE 0]])

(* new_vandermonde with the arguments of exp exchanged *)
new_vandermonde_swapped(rows, cols) ==
    Matrix(rows, cols,
           [r \in 1..rows |->
               [c \in 1..cols |-> exp((c - 1) % FIELD_SIZE, r - 1)]])

(* data[r][c] = gf.exp(r as u8, c): the cast keeps the low 8 bits of r *)
new_vandermonde(rows, cols) ==
    Matrix(rows, cols,
           [r \in 1..rows |->
               [c \in 1..cols |-> exp((r - 1) % FIELD_SIZE, c - 1)]])

(* rows r_start..r_end and columns c_start..c_end (0-based, end excluded) *)
new_sub_matrix(m, r_start, r_end, c_start, c_end) ==
    Matrix(r_end - r_start, c_end - c_start,
           [r \in 1..(r_end - r_start) |->
               [c \in 1..(c_end - c_start) |->
                   m.data[r_start + r][c_start + c]]])

new_augmented_matrix(left, right) ==
    IF left.rows # right.rows
    THEN Panic("Row count of the matrices must match")
    ELSE Ok(Matrix(left.rows, left.cols + right.cols,
                   [r \in 1..left.rows |->
                       [c \in 1..(left.cols + right.cols) |->
                           IF c <= left.cols THEN left.data[r][c]
                           ELSE right.data[r][c - left.cols]]]))

(* value = XOR over lc in 0..cols of gf.mul(left[r][lc], right[lc][c]),    *)
(* accumulated from lc on                                                  *)
RECURSIVE MulCell(_, _, _, _)
MulCell(lrow, right, c, lc) ==
    IF lc > Len(lrow) THEN 0
    ELSE add(mul(lrow[lc], right.data[lc][c]), MulCell(lrow, right, c, lc + 1))

Matrix_mul(left, right) ==
    IF left.cols # right.rows
    THEN Panic("Colomn count on left has to be same as row count on right")
    ELSE Ok(Matrix(left.rows, right.cols,
                   [r \in 1..left.rows |->
                       [c \in 1..right.cols |->
                           MulCell(left.data[r], right, c, 1)]]))

swap_rows(data, row1, row2) ==
    IF row1 = row2 THEN data
    ELSE [data EXCEPT ![row1] = data[row2], ![row2] = data[row1]]

(* the rows below r (1-based) that hold a non-zero in column r *)
NonZeroBelow(data, rows, r) == {rb \in (r + 1)..rows : data[rb][r] # 0}

Min(S) == CHOOSE x \in S : \A y \in S : x <= y

FindPivot_no_swap(data, rows, r) == data

(* "if data[r][r] == 0, swap with the first row below that has a non-zero" *)
FindPivot(data, rows, r) ==
    IF data[r][r] = 0 /\ NonZeroBelow(data, rows, r) # {}
    THEN swap_rows(data, Min(NonZeroBelow(data, rows, r)), r)
    ELSE data

(* "Scale to 1": row r times div(1, pivot), unless the pivot is 1 already *)
ScalePivot(data, cols, r) ==
    IF data[r][r] # 1
    THEN LET scale == div(1, data[r][r])
         IN  [data EXCEPT ![r] = [c \in 1..cols |-> mul(data[r][c], scale)]]
    ELSE data

(* row "target" plus data[target][col] times row "src", when that is not 0 *)
Eliminate(data, cols, target, src, col) ==
    IF data[target][col] # 0
    THEN [c \in 1..cols |->
             add(data[target][c], mul(data[target][col], data[src][c]))]
    ELSE data[target]

ClearBelow(data, rows, cols, r) ==
    [x \in 1..rows |->
        IF x > r THEN Eliminate(data, cols, x, r, r) ELSE data[x]]

ClearAbove(data, rows, cols, d) ==
    [x \in 1..rows |->
        IF x < d THEN Eliminate(data, cols, x, d, d) ELSE data[x]]

(* first loop of gauss_elim, from pivot row r on *)
RECURSIVE ForwardPass(_, _, _, _)
ForwardPass(data, rows, cols, r) ==
    IF r > rows THEN Ok(data)
    ELSE LET swapped == FindPivot(data, rows, r)
         IN  IF swapped[r][r] = 0
             THEN Panic("The given matrix is singular")
             ELSE ForwardPass(
                      ClearBelow(ScalePivot(swapped, cols, r), rows, cols, r),
                      rows, cols, r + 1)

(* second loop of gauss_elim, from diagonal d on *)
RECURSIVE BackwardPass(_, _, _, _)
BackwardPass(data, rows, cols, d) ==
    IF d > rows THEN data
    ELSE BackwardPass(ClearAbove(data, rows, cols, d), rows, cols, d + 1)

gauss_elim(m) ==
    LET fwd == ForwardPass(m.data, m.rows, m.cols, 1)
    IN  IF fwd.kind = "Panic" THEN fwd
        ELSE Ok(Matrix(m.rows, m.cols,
                       BackwardPass(fwd.val, m.rows, m.cols, 1)))

Matrix_invert(m) ==
    IF m.rows # m.cols THEN Panic("Can't invert a non-square matrix")
    ELSE LET work == new_augmented_matrix(m, new_identity(m.rows))
             done == gauss_elim(work.val)
         IN  IF work.kind = "Panic" THEN work
             ELSE IF done.kind = "Panic" THEN done
             ELSE Ok(new_sub_matrix(done.val, 0, m.rows, m.cols, m.cols * 2))

-----------------------------------------------------------------------------
(* lib.rs: usize arithmetic of ReedSolomon::new *)

(* A usize argument is written in two's complement: u >= 0 stands for u   *)
(* and u < 0 for 2^64 + u, so -1 is usize::MAX.                            *)
USIZE_MAX == -1

(* a + b on usize: the wrapped sum, and whether the true sum left usize *)
UsizeAdd(a, b) ==
    [val      |-> a + b,
     overflow |-> \/ (a < 0 /\ b < 0)
                  \/ (a < 0 /\ b >= 0 /\ a + b >= 0)
                  \/ (a >= 0 /\ b < 0 /\ a + b >= 0)]

(* a > b on usize, for a small b >= 0 *)
UsizeGt(a, b) == a < 0 \/ a > b

-----------------------------------------------------------------------------
(* lib.rs: the codec *)

(* build_matrix without the product by the inverse of the top square *)
build_matrix_plain(data_shards, total_shards) ==
    Ok(new_vandermonde(total_shards, data_shards))

build_matrix(data_shards, total_shards) ==
    LET vandermonde == new_vandermonde(total_shards, data_shards)
        top == new_sub_matrix(vandermonde, 0, data_shards, 0, data_shards)
        top_inv == Matrix_invert(top)
    IN  IF top_inv.kind # "Ok" THEN top_inv
        ELSE Matrix_mul(vandermonde, top_inv.val)

(* the rows data_shards + i, i in 0..parity_shards, of the built matrix *)
ParityRows(matrix, data_shards, parity_shards) ==
    Matrix(parity_shards, data_shards,
           [i \in 1..parity_shards |-> matrix.data[data_shards + i]])

(* new(data_shards, parity_shards).  overflow_checks: whether the build   *)
(* panics on arithmetic overflow (debug) or wraps (release).  When the    *)
(* sum wrapped, a count above isize::MAX makes vec![0; cols] panic and a  *)
(* total below data_shards makes new_sub_matrix index past the last row.  *)
ReedSolomon_new(data_shards, parity_shards, overflow_checks) ==
    LET sum == UsizeAdd(data_shards, parity_shards)
        total_shards == sum.val
        built == build_matrix(data_shards, total_shards)
    IN  IF data_shards = 0 THEN Err("ZeroDataShards")
        ELSE IF parity_shards = 0 THEN Err("ZeroParityShards")
        ELSE IF sum.overflow /\ overflow_checks
        THEN Panic("attempt to add with overflow")
        ELSE IF UsizeGt(sum.val, 256) THEN Err("ShardsOverflow")
        ELSE IF data_shards < 0 THEN Panic("capacity overflow")
        ELSE IF total_shards < data_shards
        THEN Panic("index out of bounds")
        ELSE IF built.kind # "Ok" THEN built
        ELSE Ok([data_shard_count   |-> data_shards,
                 parity_shard_count |-> parity_shards,
                 total_shard_count  |-> total_shards,
                 parity |-> ParityRows(built.val, data_shards, parity_shards),
                 matrix |-> built.val])

(* check_shard_sizes rejecting only an array that is too short *)
check_shard_sizes_short(codec, shards) ==
    IF Len(shards) < codec.total_shard_count THEN Err("WrongNoOfShards")
    ELSE IF Len(shards[1]) = 0 THEN Err("EmptyShards")
    ELSE IF \E i \in 1..Len(shards) : Len(shards[i]) # Len(shards[1])
    THEN Err("InconsistentShards")
    ELSE Ok(<<>>)

check_shard_sizes(codec, shards) ==
    IF Len(shards) # codec.total_shard_count THEN Err("WrongNoOfShards")
    ELSE IF Len(shards[1]) = 0 THEN Err("EmptyShards")
    ELSE IF \E i \in 1..Len(shards) : Len(shards[i]) # Len(shards[1])
    THEN Err("InconsistentShards")
    ELSE Ok(<<>>)

(* the indexing of encode_shards leaves a vector: parity.data[out][inp],  *)
(* inputs[inp] or outputs[out][i_byte]                                    *)
EncodeOutOfBounds(codec, parity, inputs, outputs) ==
    \E inp \in 1..codec.data_shard_count, out \in 1..codec.parity_shard_count :
        \/ out > Len(parity.data)
        \/ inp > Len(parity.data[out])
        \/ inp > Len(inputs)
        \/ out > Len(outputs)
        \/ Len(inputs[inp]) > Len(outputs[out])

(* EncodeRow without the inp == 0 case: it accumulates into whatever the  *)
(* output row holds                                                        *)
EncodeRow_accumulate(outrow, parity_byte, inrow, first) ==
    [i_byte \in 1..Len(outrow) |->
        IF i_byte > Len(inrow) THEN outrow[i_byte]
        ELSE add(outrow[i_byte], mul(parity_byte, inrow[i_byte]))]

(* the byte loop over inputs[inp] for one output row: a plain product for *)
(* inp == 0, an accumulation into the output byte after it                *)
EncodeRow(outrow, parity_byte, inrow, first) ==
    [i_byte \in 1..Len(outrow) |->
        IF i_byte > Len(inrow) THEN outrow[i_byte]
        ELSE IF first THEN mul(parity_byte, inrow[i_byte])
        ELSE add(outrow[i_byte], mul(parity_byte, inrow[i_byte]))]

(* the loop "for inp in 0..data_shard_count" from input row inp (1-based) *)
RECURSIVE EncodeFrom(_, _, _, _, _)
EncodeFrom(codec, parity, inputs, outputs, inp) ==
    IF inp > codec.data_shard_count THEN outputs
    ELSE EncodeFrom(codec, parity, inputs,
             [out \in 1..Len(outputs) |->
                 IF out <= codec.parity_shard_count
                 THEN EncodeRow(outputs[out], parity.data[out][inp],
                                inputs[inp], inp = 1)
                 ELSE outputs[out]],
             inp + 1)

encode_shards(codec, parity, inputs, outputs) ==
    IF EncodeOutOfBounds(codec, parity, inputs, outputs)
    THEN Panic("index out of bounds")
    ELSE Ok(EncodeFrom(codec, parity, inputs, outputs, 1))

(* encode splitting the array at parity_shard_count *)
encode_split_at_parity(codec, shards) ==
    LET checked == check_shard_sizes(codec, shards)
        inputs == SubSeq(shards, 1, codec.parity_shard_count)
        outputs == SubSeq(shards, codec.parity_shard_count + 1, Len(shards))
        coded == encode_shards(codec, codec.parity, inputs, outputs)
    IN  IF checked.kind # "Ok" THEN checked
        ELSE IF coded.kind # "Ok" THEN coded
        ELSE Ok(inputs \o coded.val)

encode(codec, shards) ==
    LET checked == check_shard_sizes(codec, shards)
        inputs == SubSeq(shards, 1, codec.data_shard_count)
        outputs == SubSeq(shards, codec.data_shard_count + 1, Len(shards))
        coded == encode_shards(codec, codec.parity, inputs, outputs)
    IN  IF checked.kind # "Ok" THEN checked
        ELSE IF coded.kind # "Ok" THEN coded
        ELSE Ok(inputs \o coded.val)

(* the positions i (1-based, ascending) of 1..upto whose shard is          *)
(* non-empty (want = TRUE) or empty (want = FALSE), from position i on    *)
RECURSIVE Positions(_, _, _, _)
Positions(shards, want, i, upto) ==
    IF i > upto THEN <<>>
    ELSE (IF (Len(shards[i]) # 0) = want THEN <<i>> ELSE <<>>)
         \o Positions(shards, want, i + 1, upto)

Zeros(n) == [i \in 1..n |-> 0]

(* the length of the last non-empty shard, 0 when there is none *)
LastLen(shards) ==
    LET present == Positions(shards, TRUE, 1, Len(shards))
    IN  IF present = <<>> THEN 0 ELSE Len(shards[present[Len(present)]])

(* check_shard_sizes_for_decode without its last test, present < K *)
check_shard_sizes_for_decode_any_present(codec, shards) ==
    LET present == Len(Positions(shards, TRUE, 1, Len(shards)))
        shard_elem_len == LastLen(shards)
        same_size == Cardinality({i \in 1..Len(shards) :
                                     Len(shards[i]) = shard_elem_len})
    IN  IF Len(shards) < codec.total_shard_count THEN Err("TooFewShards")
        ELSE IF Len(shards) > codec.total_shard_count
        THEN Err("TooManyShards")
        ELSE IF present # same_size THEN Err("InconsistentShards")
        ELSE Ok(<<present, shard_elem_len>>)

(* check_shard_sizes_for_decode comparing the lengths before the count *)
check_shard_sizes_for_decode_lengths_first(codec, shards) ==
    LET present == Len(Positions(shards, TRUE, 1, Len(shards)))
        shard_elem_len == LastLen(shards)
        same_size == Cardinality({i \in 1..Len(shards) :
                                     Len(shards[i]) = shard_elem_len})
    IN  IF present # same_size THEN Err("InconsistentShards")
        ELSE IF Len(shards) < codec.total_shard_count THEN Err("TooFewShards")
        ELSE IF Len(shards) > codec.total_shard_count
        THEN Err("TooManyShards")
        ELSE IF present < codec.data_shard_count THEN Err("TooFewShards")
        ELSE Ok(<<present, shard_elem_len>>)

check_shard_sizes_for_decode(codec, shards) ==
    LET present == Len(Positions(shards, TRUE, 1, Len(shards)))
        shard_elem_len == LastLen(shards)
        same_size == Cardinality({i \in 1..Len(shards) :
                                     Len(shards[i]) = shard_elem_len})
    IN  IF Len(shards) < codec.total_shard_count THEN Err("TooFewShards")
        ELSE IF Len(shards) > codec.total_shard_count
        THEN Err("TooManyShards")
        ELSE IF present # same_size THEN Err("InconsistentShards")
        ELSE IF present < codec.data_shard_count THEN Err("TooFewShards")
        ELSE Ok(<<present, shard_elem_len>>)

(* SubShard taking the last data_shard_count non-empty shards *)
SubShard_last_present(codec, shards) ==
    LET picked == Positions(shards, TRUE, 1, codec.total_shard_count)
        skip == Len(picked) - codec.data_shard_count
    IN  [j \in 1..codec.data_shard_count |->
            IF j + skip >= 1 THEN shards[picked[j + skip]] ELSE <<>>]

(* the while loop of decode: the rows of the encoding matrix and the      *)
(* shards at the first data_shard_count non-empty positions; rows the     *)
(* loop does not reach keep their initial value                           *)
SubMatrix(codec, shards) ==
    LET picked == Positions(shards, TRUE, 1, codec.total_shard_count)
        k == codec.data_shard_count
    IN  Matrix(k, k,
               [j \in 1..k |-> IF j <= Len(picked)
                               THEN codec.matrix.data[picked[j]]
                               ELSE Zeros(k)])

SubShard(codec, shards) ==
    LET picked == Positions(shards, TRUE, 1, codec.total_shard_count)
    IN  [j \in 1..codec.data_shard_count |->
            IF j <= Len(picked) THEN shards[picked[j]] ELSE <<>>]

(* matrix_rows: Matrix::new(M, M) with row output_count replaced by the   *)
(* decode row of the output_count-th missing data shard                   *)
MatrixRows(codec, missing, data_decode_matrix) ==
    LET m == codec.parity_shard_count
    IN  Matrix(m, m,
               [o \in 1..m |-> IF o <= Len(missing)
                               THEN data_decode_matrix.data[missing[o]]
                               ELSE Zeros(m)])

(* "Filling the missing data shards" and "Filling missing parity shards   *)
(* with placeholder"                                                      *)
FillMissing(codec, shards, missing, outputs, shard_elem_len) ==
    [i \in 1..Len(shards) |->
        IF Len(shards[i]) # 0 THEN shards[i]
        ELSE IF i <= codec.data_shard_count
        THEN outputs[CHOOSE o \in 1..Len(missing) : missing[o] = i]
        ELSE Zeros(shard_elem_len)]

decode_always_recomputes(codec, shards) ==
    LET checked == check_shard_sizes_for_decode(codec, shards)
    IN  IF checked.kind # "Ok" THEN checked
        ELSE encode(codec, [i \in 1..Len(shards) |->
                               IF Len(shards[i]) # 0 THEN shards[i]
                               ELSE Zeros(checked.val[2])])

decode(codec, shards) ==
    LET checked == check_shard_sizes_for_decode(codec, shards)
        present == checked.val[1]
        shard_elem_len == checked.val[2]
        inverted == Matrix_invert(SubMatrix(codec, shards))
        missing == Positions(shards, FALSE, 1, codec.data_shard_count)
        matrix_rows == MatrixRows(codec, missing, inverted.val)
        blank == [o \in 1..codec.parity_shard_count |-> Zeros(shard_elem_len)]
        outputs == encode_shards(codec, matrix_rows,
                                 SubShard(codec, shards), blank)
    IN  IF checked.kind # "Ok" THEN checked
        ELSE IF present = codec.total_shard_count THEN Ok(shards)
        ELSE IF inverted.kind # "Ok" THEN inverted
        ELSE IF Len(missing) > codec.parity_shard_count
        THEN Panic("index out of bounds")
        ELSE IF outputs.kind # "Ok" THEN outputs
        ELSE encode(codec, FillMissing(codec, shards, missing, outputs.val,
                                       shard_elem_len))

-----------------------------------------------------------------------------
(* The calls a client makes.  rs is the codec the last new returned (None *)
(* when it failed), op / input / result describe the last call, and       *)
(* encoded is the array                                                    *)
(* the client kept from the last successful encode while it decodes        *)
(* damaged copies of it (as the tests of lib.rs do).                       *)

MaxShards == 4

MaxLen == 2

MaxDataBytes == 4

ByteVals == {0, 1, 200}

(* (K, M) around the limits of new, beside the small codecs *)
BoundaryArgs ==
    {<<1, 255>>, <<1, 256>>, <<200, 100>>, <<USIZE_MAX, 1>>, <<1, USIZE_MAX>>}

NewArgs ==
    {km \in (0..MaxShards) \X (0..MaxShards) : km[1] + km[2] <= MaxShards}
    \cup BoundaryArgs

Uniform(len, byte) == [j \in 1..len |-> byte]

(* K data shards of one length with any content, and M placeholders *)
ValidArrays(codec) ==
    UNION {
        {data \o [i \in 1..codec.parity_shard_count |-> Uniform(len, fill)] :
            data \in [1..codec.data_shard_count -> [1..len -> ByteVals]],
            fill \in ByteVals}
        : len \in {l \in 1..MaxLen :
                      l * codec.data_shard_count <= MaxDataBytes}}

(* the entry lengths of an array of count entries: every combination of  *)
(* lengths 0..MaxLen when count is the codec's N; for another count, one   *)
(* common length or lengths that differ from entry to entry               *)
Shapes(codec, count) ==
    IF count = codec.total_shard_count
    THEN [1..count -> 0..MaxLen]
    ELSE {[i \in 1..count |-> len] : len \in 0..MaxLen}
         \cup {[i \in 1..count |-> i % (MaxLen + 1)]}

(* arrays of 0 or N-1..N+1 entries of those shapes *)
ShapedArrays(codec) ==
    LET n == codec.total_shard_count
    IN  UNION {
            {[i \in 1..count |-> Uniform(lens[i], fill)] :
                lens \in Shapes(codec, count), fill \in ByteVals}
            : count \in {0} \cup ((n - 1)..(n + 1))}

Erase(shards, lost) ==
    [i \in 1..Len(shards) |-> IF i \in lost THEN <<>> ELSE shards[i]]

Init ==
    /\ rs = None
    /\ op = "init"
    /\ input = <<>>
    /\ result = None
    /\ encoded = None

(* a panic ends the process: no call follows it *)
Running == result.kind # "Panic"

(* codecs are constructed before any of them is used *)
New(data_shards, parity_shards, overflow_checks) ==
    /\ Running
    /\ op \in {"init", "new"}
    /\ op' = "new"
    /\ input' = <<data_shards, parity_shards>>
    /\ result' = ReedSolomon_new(data_shards, parity_shards, overflow_checks)
    /\ rs' = IF result'.kind = "Ok" THEN result'.val ELSE None
    /\ encoded' = None

Usable == Running /\ rs # None /\ rs.total_shard_count <= MaxShards

(* the first call on a codec takes any array, a later call the array the  *)
(* call before it returned                                                *)
Returned == IF result.kind = "Ok" THEN {result.val} ELSE {}

EncodeInputs ==
    IF op = "new" THEN ValidArrays(rs) \cup ShapedArrays(rs) ELSE Returned

(* an array of ValidArrays that lost one data shard: its other entries   *)
(* need not fit together                                                   *)
DamagedArrays(codec) ==
    {Erase(shards, {i}) :
        shards \in ValidArrays(codec), i \in 1..codec.data_shard_count}

DecodeInputs ==
    IF op = "new"
    THEN ValidArrays(rs) \cup ShapedArrays(rs) \cup DamagedArrays(rs)
    ELSE Returned

Encode_into_parity(shards) ==
    /\ Usable
    /\ op' = "encode"
    /\ input' = shards
    /\ result' = encode(rs, shards)
    /\ encoded' = IF result'.kind = "Ok" THEN result' ELSE None
    /\ rs' = IF result'.kind = "Ok"
             THEN [rs EXCEPT !.parity.data =
                      SubSeq(result'.val, rs.data_shard_count + 1,
                             rs.total_shard_count)]
             ELSE rs

Encode(shards) ==
    /\ Usable
    /\ op' = "encode"
    /\ input' = shards
    /\ result' = encode(rs, shards)
    /\ encoded' = IF result'.kind = "Ok" THEN result' ELSE None
    /\ UNCHANGED rs

Decode(shards) ==
    /\ Usable
    /\ op' = "decode"
    /\ input' = shards
    /\ result' = decode(rs, shards)
    /\ encoded' = None
    /\ UNCHANGED rs

(* decode of the kept encode output with the positions "lost" erased *)
DecodeErased(lost) ==
    /\ Usable
    /\ op = "encode"
    /\ encoded # None
    /\ op' = "decode"
    /\ input' = Erase(encoded.val, lost)
    /\ result' = decode(rs, input')
    /\ UNCHANGED <<rs, encoded>>

Next ==
    \/ \E km \in NewArgs, overflow_checks \in BOOLEAN :
           New(km[1], km[2], overflow_checks)
    \/ Usable /\ \E shards \in EncodeInputs : Encode(shards)
    \/ Usable /\ \E shards \in DecodeInputs : Decode(shards)
    \/ Usable /\ op = "encode"
              /\ \E lost \in SUBSET (1..rs.total_shard_count) :
                     /\ Cardinality(lost) <= rs.parity_shard_count
                     /\ DecodeErased(lost)

Spec == Init /\ [][Next]_vars

-----------------------------------------------------------------------------
(* The field alone: from the field GaloisField::new built, one read of a   *)
(* table entry or one call of mul or div, for every index and every pair   *)
(* of bytes (div with a non-zero divisor, as gauss_elim calls it), one     *)
(* call of exp for every byte and every exponent up to MaxExp, or one      *)
(* Vandermonde matrix, which tabulates exp.                                *)

MaxExp == 20

(* the row counts of the Vandermonde matrices: small ones, and all 256    *)
(* rows a codec of 256 shards has                                          *)
VandermondeRows == (1..MaxShards) \cup {FIELD_SIZE}

LogLookup(a) ==
    /\ op = "init"
    /\ op' = "log_table"
    /\ input' = <<a>>
    /\ result' = Ok(log_table[a])
    /\ UNCHANGED <<rs, encoded>>

ExpLookup(i) ==
    /\ op = "init"
    /\ op' = "exp_table"
    /\ input' = <<i>>
    /\ result' = Ok(exp_table[i])
    /\ UNCHANGED <<rs, encoded>>

Mul(a, b) ==
    /\ op = "init"
    /\ op' = "mul"
    /\ input' = <<a, b>>
    /\ result' = Ok(mul(a, b))
    /\ UNCHANGED <<rs, encoded>>

Div(a, b) ==
    /\ op = "init"
    /\ op' = "div"
    /\ input' = <<a, b>>
    /\ result' = Ok(div(a, b))
    /\ UNCHANGED <<rs, encoded>>

Exp(a, n) ==
    /\ op = "init"
    /\ op' = "exp"
    /\ input' = <<a, n>>
    /\ result' = Ok(exp(a, n))
    /\ UNCHANGED <<rs, encoded>>

NewVandermonde(rows, cols) ==
    /\ op = "init"
    /\ op' = "new_vandermonde"
    /\ input' = <<rows, cols>>
    /\ result' = Ok(new_vandermonde(rows, cols))
    /\ UNCHANGED <<rs, encoded>>

FieldNext ==
    \/ op = "init" /\ \E a \in Bytes : LogLookup(a)
    \/ op = "init" /\ \E i \in 0..(EXP_TABLE_SIZE - 1) : ExpLookup(i)
    \/ op = "init" /\ \E a, b \in Bytes : Mul(a, b)
    \/ op = "init" /\ \E a \in Bytes, b \in Bytes \ {0} : Div(a, b)
    \/ op = "init" /\ \E a \in Bytes, n \in 0..MaxExp : Exp(a, n)
    \/ op = "init" /\ \E rows \in VandermondeRows, cols \in 1..MaxShards :
                        NewVandermonde(rows, cols)

FieldSpec == Init /\ [][FieldNext]_vars

-----------------------------------------------------------------------------
(* The matrix alone: a square matrix is built from rows (new_from_data),   *)
(* inverted, and its inverse inverted back.  rs is the receiver of the     *)
(* call, result what the call returned, encoded the matrix whose inverse   *)
(* is being inverted back.                                                 *)

MaxDim == 3

(* the rows the matrices are built of: the zero row, the unit rows, the   *)
(* sums of two neighbouring unit rows, and the powers of 2 and of 3        *)
RowPool(n) ==
    {[c \in 1..n |-> 0]}
    \cup {[c \in 1..n |-> IF c = i THEN 1 ELSE 0] : i \in 1..n}
    \cup {[c \in 1..n |-> IF c \in {i, i + 1} THEN 1 ELSE 0] :
              i \in 1..(n - 1)}
    \cup {[c \in 1..n |-> exp(g, c)] : g \in {2, 3}}

(* the matrix of test_invert and its expected inverse *)
TestMatrix == <<<<56, 23, 98>>, <<3, 100, 200>>, <<45, 201, 123>>>>

TestInverse == <<<<175, 133, 33>>, <<130, 13, 245>>, <<112, 35, 126>>>>

SquareData ==
    UNION {[1..n -> RowPool(n)] : n \in 1..MaxDim} \cup {TestMatrix}

(* the data of the non-square zero matrices Matrix::new returns *)
RectData ==
    {Matrix_new(r, c).data : r \in 1..MaxDim, c \in 1..MaxDim} \ SquareData

NewFromData(data) ==
    /\ op = "init"
    /\ op' = "new_from_data"
    /\ input' = data
    /\ rs' = new_from_data(data)
    /\ result' = Ok(rs')
    /\ UNCHANGED encoded

Invert_in_place ==
    /\ op = "new_from_data"
    /\ op' = "invert"
    /\ result' = Matrix_invert(rs)
    /\ rs' = IF result'.kind = "Ok" THEN result'.val ELSE rs
    /\ UNCHANGED <<input, encoded>>

Invert ==
    /\ op = "new_from_data"
    /\ op' = "invert"
    /\ result' = Matrix_invert(rs)
    /\ UNCHANGED <<rs, input, encoded>>

InvertBack ==
    /\ op = "invert"
    /\ result.kind = "Ok"
    /\ op' = "invert_back"
    /\ encoded' = rs
    /\ rs' = result.val
    /\ result' = Matrix_invert(result.val)
    /\ UNCHANGED input

(* self.mul(right) and self.new_augmented_matrix(right) on the matrix    *)
(* new_from_data returned                                                 *)
MatrixMul(right) ==
    /\ op = "new_from_data"
    /\ op' = "mul"
    /\ input' = right
    /\ result' = Matrix_mul(rs, right)
    /\ UNCHANGED <<rs, encoded>>

NewAugmentedMatrix(right) ==
    /\ op = "new_from_data"
    /\ op' = "new_augmented_matrix"
    /\ input' = right
    /\ result' = new_augmented_matrix(rs, right)
    /\ UNCHANGED <<rs, encoded>>

MatrixNext ==
    \/ op = "init" /\ \E data \in SquareData \cup RectData : NewFromData(data)
    \/ Invert
    \/ InvertBack
    \/ \E size \in 1..MaxDim : MatrixMul(new_identity(size))
    \/ \E size \in 1..MaxDim : NewAugmentedMatrix(new_identity(size))

MatrixSpec == Init /\ [][MatrixNext]_vars

-----------------------------------------------------------------------------
(* Vocabulary of the properties *)

IsOk(r) == r.kind = "Ok"

IsErr(r, e) == r.kind = "Err" /\ r.val = e

EmptyCount(shards) == Cardinality({i \in 1..Len(shards) : Len(shards[i]) = 0})

(* N non-empty shards of one length *)
ValidForEncode(codec, shards) ==
    /\ Len(shards) = codec.total_shard_count
    /\ \A i \in 1..Len(shards) :
           Len(shards[i]) # 0 /\ Len(shards[i]) = Len(shards[1])

(* shards is "whole" with some positions replaced by the empty sequence *)
IsErasureOf(shards, whole) ==
    /\ Len(shards) = Len(whole)
    /\ \A i \in 1..Len(whole) : shards[i] = <<>> \/ shards[i] = whole[i]

(* XOR over i in from..K of mul(P[o][i], D[i][j]) *)
RECURSIVE ParitySum(_, _, _, _, _)
ParitySum(codec, data, o, j, from) ==
    IF from > codec.data_shard_count THEN 0
    ELSE Xor(mul(codec.parity.data[o][from], data[from][j]),
             ParitySum(codec, data, o, j, from + 1))

(* the strictly ascending choices of k row numbers among 1..n *)
RowChoices(n, k) ==
    {c \in [1..k -> 1..n] : \A a, b \in 1..k : a < b => c[a] < c[b]}

-----------------------------------------------------------------------------
(* C1: decode of an encode output with at most M positions erased (data,  *)
(* parity or both) returns Ok with exactly that encode output.            *)
C1_RoundTrip ==
    (/\ op = "decode"
     /\ encoded # None
     /\ IsErasureOf(input, encoded.val)
     /\ EmptyCount(input) <= rs.parity_shard_count)
    => (IsOk(result) /\ result.val = encoded.val)

(* C2: on a valid input encode returns N shards of the input's length L   *)
(* whose first K shards are the first K input shards.                      *)
C2_DataShardsKept ==
    (op = "encode" /\ ValidForEncode(rs, input))
    => /\ IsOk(result)
       /\ Len(result.val) = rs.total_shard_count
       /\ \A i \in 1..rs.total_shard_count :
              Len(result.val[i]) = Len(input[1])
       /\ \A i \in 1..rs.data_shard_count : result.val[i] = input[i]

C2_Witness ==
    /\ op = "encode"
    /\ ValidForEncode(rs, input)
    /\ IsOk(result)
    /\ rs.data_shard_count >= 2
    /\ input[1] # input[2]
    /\ result.val # input

(* C3: on a valid input, byte j of parity shard o is the XOR over the K   *)
(* data shards i of mul(P[o][i], D[i][j]), and the result is the one      *)
(* encode gives when the placeholders at K..N are zeroed: it does not     *)
(* depend on their bytes.                                                  *)
C3_ParityIsProduct ==
    (op = "encode" /\ ValidForEncode(rs, input))
    => /\ IsOk(result)
       /\ \A o \in 1..rs.parity_shard_count, j \in 1..Len(input[1]) :
              result.val[rs.data_shard_count + o][j]
                  = ParitySum(rs, input, o, j, 1)
       /\ result =
              encode(rs, [i \in 1..Len(input) |->
                             IF i <= rs.data_shard_count THEN input[i]
                             ELSE Zeros(Len(input[i]))])

C3_Witness ==
    /\ op = "encode"
    /\ ValidForEncode(rs, input)
    /\ IsOk(result)
    /\ rs.data_shard_count >= 2
    /\ input[Len(input)][1] = 200
    /\ result.val[Len(input)][1] \notin {0, 200}

(* C4: the top K rows of the encoding matrix of a constructed codec are   *)
(* the K x K identity and the stored parity block is its rows K..N.        *)
C4_SystematicMatrix ==
    (rs # None)
    => /\ rs.matrix.rows = rs.total_shard_count
       /\ rs.matrix.cols = rs.data_shard_count
       /\ SubSeq(rs.matrix.data, 1, rs.data_shard_count)
              = new_identity(rs.data_shard_count).data
       /\ rs.parity.rows = rs.parity_shard_count
       /\ rs.parity.cols = rs.data_shard_count
       /\ rs.parity.data = SubSeq(rs.matrix.data, rs.data_shard_count + 1,
                                  rs.total_shard_count)

C4_Witness ==
    /\ op = "new"
    /\ IsOk(result)
    /\ rs.data_shard_count >= 2
    /\ rs.parity_shard_count >= 2
    /\ \E c \in 1..rs.data_shard_count : rs.parity.data[1][c] \notin {0, 1}

(* C5: any K distinct rows of the encoding matrix of a constructed codec  *)
(* form an invertible matrix, and no call reports a singular matrix.       *)
C5_AnyKRowsInvertible ==
    /\ (op = "new" /\ IsOk(result))
       => \A c \in RowChoices(rs.total_shard_count, rs.data_shard_count) :
              IsOk(Matrix_invert(
                  Matrix(rs.data_shard_count, rs.data_shard_count,
                         [j \in 1..rs.data_shard_count |->
                             rs.matrix.data[c[j]]])))
    /\ ~(result.kind = "Panic" /\ result.val = "The given matrix is singular")

C5_Witness ==
    /\ op = "decode"
    /\ IsOk(result)
    /\ rs.data_shard_count >= 2
    /\ input[1] = <<>>
    /\ EmptyCount(input) = rs.parity_shard_count

(* C6: new(K, M) returns ZeroDataShards when K == 0, otherwise            *)
(* ZeroParityShards when M == 0, otherwise ShardsOverflow when K + M >    *)
(* 256, and otherwise a codec with the counts K, M and K + M.  (A         *)
(* negative input stands for a usize of 2^64 + input, so K + M > 256      *)
(* as soon as one of them is negative and the other is not 0.)            *)
C6_NewChecksInOrder ==
    (op = "new")
    => IF input[1] = 0 THEN IsErr(result, "ZeroDataShards")
       ELSE IF input[2] = 0 THEN IsErr(result, "ZeroParityShards")
       ELSE IF input[1] < 0 \/ input[2] < 0 \/ input[1] + input[2] > 256
       THEN IsErr(result, "ShardsOverflow")
       ELSE /\ IsOk(result)
            /\ rs.data_shard_count = input[1]
            /\ rs.parity_shard_count = input[2]
            /\ rs.total_shard_count = input[1] + input[2]

(* C7: encode on N shards of which any one, at any position, is empty     *)
(* returns EmptyShards.                                                    *)
C7_AnyEmptyShard ==
    (/\ op = "encode"
     /\ Len(input) = rs.total_shard_count
     /\ EmptyCount(input) > 0)
    => IsErr(result, "EmptyShards")

(* C8: encode returns WrongNoOfShards when the array has not N entries,   *)
(* InconsistentShards when it has N non-empty entries of unequal lengths, *)
(* and Ok only for N non-empty entries of one length.                      *)
C8_EncodeValidation ==
    (op = "encode")
    => /\ Len(input) # rs.total_shard_count
              => IsErr(result, "WrongNoOfShards")
       /\ (/\ Len(input) = rs.total_shard_count
           /\ EmptyCount(input) = 0
           /\ ~ValidForEncode(rs, input))
              => IsErr(result, "InconsistentShards")
       /\ IsOk(result) => ValidForEncode(rs, input)

C8_Witness ==
    /\ op = "encode"
    /\ Len(input) = rs.total_shard_count
    /\ EmptyCount(input) = 0
    /\ ~ValidForEncode(rs, input)
    /\ IsErr(result, "InconsistentShards")

(* C9: decode on N entries whose non-empty entries share one length and   *)
(* of which fewer than K are non-empty (all of them empty included)       *)
(* returns TooFewShards.                                                   *)
C9_TooFewPresent ==
    (/\ op = "decode"
     /\ Len(input) = rs.total_shard_count
     /\ \A i, j \in 1..Len(input) :
            (Len(input[i]) # 0 /\ Len(input[j]) # 0)
                => Len(input[i]) = Len(input[j])
     /\ Len(input) - EmptyCount(input) < rs.data_shard_count)
    => IsErr(result, "TooFewShards")

(* C10: decode returns TooFewShards for fewer than N entries and          *)
(* TooManyShards for more than N, whatever the entries hold: before any   *)
(* check of the lengths or of the number of non-empty entries.             *)
C10_DecodeCountFirst ==
    (op = "decode")
    => /\ Len(input) < rs.total_shard_count => IsErr(result, "TooFewShards")
       /\ Len(input) > rs.total_shard_count => IsErr(result, "TooManyShards")

C10_Witness ==
    /\ op = "decode"
    /\ Len(input) > rs.total_shard_count
    /\ \E i, j \in 1..Len(input) :
           Len(input[i]) # 0 /\ Len(input[j]) # 0
               /\ Len(input[i]) # Len(input[j])
    /\ IsErr(result, "TooManyShards")

(* the non-empty entries of shards have one common length *)
PresentAgree(shards) ==
    \A i, j \in 1..Len(shards) :
        (Len(shards[i]) # 0 /\ Len(shards[j]) # 0)
            => Len(shards[i]) = Len(shards[j])

(* the codec a fresh call of new with the counts of codec returns *)
FreshCodecs ==
    [km \in {x \in (1..MaxShards) \X (1..MaxShards) :
                 x[1] + x[2] <= MaxShards}
        |-> ReedSolomon_new(km[1], km[2], TRUE).val]

Fresh(codec) ==
    FreshCodecs[<<codec.data_shard_count, codec.parity_shard_count>>]

(* C11: decode on exactly N entries returns InconsistentShards if and     *)
(* only if two non-empty entries have different lengths; empty entries    *)
(* never count as a mismatch.                                              *)
C11_InconsistentIff ==
    (op = "decode" /\ Len(input) = rs.total_shard_count)
    => (IsErr(result, "InconsistentShards") <=> ~PresentAgree(input))

(* C12: decode on N non-empty entries of one length returns Ok with the   *)
(* input array unchanged, also when its parity entries are not the        *)
(* parity of its data entries.                                             *)
C12_FullArrayUnchanged ==
    (op = "decode" /\ ValidForEncode(rs, input))
    => (IsOk(result) /\ result.val = input)

C12_Witness ==
    /\ op = "decode"
    /\ ValidForEncode(rs, input)
    /\ encode(rs, input) # Ok(input)
    /\ result = Ok(input)

(* C13: every call of new, encode and decode ends with a value or a       *)
(* typed error: none ends the process with a panic.                        *)
C13_NoPanic == result.kind \in {"None", "Ok", "Err"}

C15_LogOfExp_1_255 ==
    (op = "exp_table" /\ input[1] \in 1..255)
    => log_table[result.val] = input[1]

(* C15 (amended): log_table[exp_table[i]] = i for every i in [0,254]; at  *)
(* i = 255 the second copy starts, exp_table[255] = exp_table[0] = 1 and  *)
(* log_table[1] = 0.                                                       *)
C15_LogOfExp ==
    /\ (op = "exp_table" /\ input[1] \in 0..254)
       => log_table[result.val] = input[1]
    /\ (op = "exp_table" /\ input[1] = 255)
       => (result.val = 1 /\ log_table[result.val] = 0)

C15_Witness ==
    /\ op = "exp_table"
    /\ input[1] = 254
    /\ result.val = 142
    /\ log_table[result.val] = 254

(* C16: exp_table[log_table[a]] = a for every a in [1,255];               *)
(* exp_table[i] = exp_table[i+255] for every i in [0,254];                *)
(* log_table[0] = 0; and log_table[1..=255] are pairwise distinct.         *)
C16_ExpOfLog ==
    /\ (op = "log_table" /\ input[1] \in 1..255)
       => /\ exp_table[result.val] = input[1]
          /\ \A b \in 1..255 : b # input[1] => log_table[b] # result.val
    /\ (op = "log_table" /\ input[1] = 0) => result.val = 0
    /\ (op = "exp_table" /\ input[1] \in 0..254)
       => result.val = exp_table[input[1] + 255]

C16_Witness ==
    /\ op = "log_table"
    /\ input[1] = 255
    /\ result.val = 175
    /\ exp_table[175] = 255
    /\ exp_table[175 + 255] = 255

(* C17: for every byte a # 0, mul(a, div(1, a)) = 1.                       *)
C17_MulByInverse ==
    (op = "div" /\ input[1] = 1) => mul(input[2], result.val) = 1

C17_Witness ==
    /\ op = "div"
    /\ input = <<1, 2>>
    /\ result.val \notin {0, 1, 2}
    /\ mul(2, result.val) = 1

(* the permutations of 1..n *)
Perms(n) ==
    {p \in [1..n -> 1..n] : \A i, j \in 1..n : i # j => p[i] # p[j]}

RECURSIVE DiagonalProduct(_, _, _)
DiagonalProduct(data, p, i) ==
    IF i > Len(data) THEN 1
    ELSE mul(data[i][p[i]], DiagonalProduct(data, p, i + 1))

RECURSIVE XorAll(_, _)
XorAll(f, S) ==
    IF S = {} THEN 0
    ELSE LET x == CHOOSE y \in S : TRUE
         IN  Xor(f[x], XorAll(f, S \ {x}))

(* the determinant over GF(2^8) (Leibniz formula; signs vanish in         *)
(* characteristic 2): it is 0 exactly when the rows are linearly          *)
(* dependent                                                               *)
Det(data) ==
    XorAll([p \in Perms(Len(data)) |-> DiagonalProduct(data, p, 1)],
           Perms(Len(data)))

Singular(m) == Det(m.data) = 0

(* C18: for every invertible square matrix A, invert(A) succeeds and      *)
(* A * invert(A) is the identity, also when a zero on the diagonal forces *)
(* gauss_elim to swap rows.                                                *)
C18_InverseIsRightInverse ==
    (op = "invert" /\ rs.rows = rs.cols /\ ~Singular(rs))
    => /\ IsOk(result)
       /\ Matrix_mul(rs, result.val) = Ok(new_identity(rs.rows))
       /\ rs.data = TestMatrix => result.val.data = TestInverse

C18_Witness ==
    /\ op = "invert"
    /\ rs.rows = 3
    /\ rs.cols = 3
    /\ rs.data[1][1] = 0
    /\ rs.data[2][1] = 0
    /\ \E c \in 1..3 : rs.data[3][c] > 1
    /\ IsOk(result)
    /\ Matrix_mul(rs, result.val) = Ok(new_identity(3))

(* C19: for every invertible square matrix A, invert(invert(A)) = A, and  *)
(* invert leaves its receiver unmodified.                                  *)
C19_InvertTwice ==
    /\ [][op' = "invert" => rs' = rs]_vars
    /\ [](op = "invert" => rs = new_from_data(input))
    /\ [](op = "invert_back" => result = Ok(encoded))

C19_Witness ==
    /\ op = "invert_back"
    /\ encoded.data = TestMatrix
    /\ rs.data = TestInverse
    /\ result = Ok(encoded)

(* C20: invert(A) fails with SingularMatrix exactly when A is singular,   *)
(* and succeeds for every invertible matrix.                               *)
C20_SingularExactly ==
    (op = "invert" /\ rs.rows = rs.cols)
    => /\ Singular(rs) <=> IsErr(result, "SingularMatrix")
       /\ ~Singular(rs) <=> IsOk(result)

(* C21: matrix shape failures are typed error values: mul returns         *)
(* RowColMustMatch when self.cols # right.rows, invert NonSquareMatrix    *)
(* when rows # cols, new_augmented_matrix RowsMustMatch when the row      *)
(* counts differ; none of them ends the process or produces a matrix.      *)
C21_ShapeErrorsAreValues ==
    /\ (op = "mul" /\ rs.cols # input.rows)
       => IsErr(result, <<"RowColMustMatch", rs.cols, input.rows>>)
    /\ (op = "invert" /\ rs.rows # rs.cols)
       => IsErr(result, "NonSquareMatrix")
    /\ (op = "new_augmented_matrix" /\ rs.rows # input.rows)
       => IsErr(result, <<"RowsMustMatch", rs.rows, input.rows>>)

(* a times x in GF(2)[x] modulo x^8 + x^4 + x^3 + x^2 + 1 *)
TimesX(a) == IF 2 * a >= 256 THEN Xor(2 * a - 256, 29) ELSE 2 * a

(* the carry-less product of a and b as polynomials over GF(2), reduced   *)
(* modulo x^8 + x^4 + x^3 + x^2 + 1: the sum of a * x^k over the bits k   *)
(* of b                                                                    *)
RECURSIVE PolyMul(_, _)
PolyMul(a, b) ==
    IF b = 0 THEN 0
    ELSE Xor(IF b % 2 = 1 THEN a ELSE 0, PolyMul(TimesX(a), b \div 2))

(* C22: for all bytes a, b, mul(a, b) is the carry-less product of a and  *)
(* b reduced modulo 0x11D; the index log_table[a] + log_table[b] is at    *)
(* most 508; mul is commutative, mul(a, 1) = a and mul(a, 0) = 0.          *)
C22_MulIsPolynomialProduct ==
    (op = "mul")
    => /\ result.val = PolyMul(input[1], input[2])
       /\ log_table[input[1]] + log_table[input[2]] <= 508
       /\ log_table[input[1]] + log_table[input[2]] < EXP_TABLE_SIZE
       /\ result.val = mul(input[2], input[1])
       /\ input[2] = 1 => result.val = input[1]
       /\ input[2] = 0 => result.val = 0

C22_Witness ==
    /\ op = "mul"
    /\ input = <<255, 255>>
    /\ log_table[255] + log_table[255] > 255
    /\ result.val = PolyMul(255, 255)
    /\ result.val \notin {0, 1, 255}

(* the n-fold field product of a with itself *)
RECURSIVE Power(_, _)
Power(a, n) == IF n = 0 THEN 1 ELSE mul(a, Power(a, n - 1))

(* C23: exp(a, n) is the n-fold field product of a with itself (1 for     *)
(* n = 0, also for a = 0; 0 for a = 0 and n > 0); the subtraction loop    *)
(* ends with an index in [0, 254]; new_vandermonde(R, C) has the entry    *)
(* exp(r mod 256, c) at [r][c] and pairwise distinct rows for R <= 256    *)
(* and C >= 2.                                                             *)
C23_ExpIsPower ==
    /\ (op = "exp")
       => /\ result.val = Power(input[1], input[2])
          /\ input[2] = 0 => result.val = 1
          /\ (input[1] = 0 /\ input[2] > 0) => result.val = 0
          /\ ReduceLog(log_table[input[1]] * input[2]) \in 0..254
    /\ (op = "new_vandermonde")
       => /\ \A r \in 1..input[1], c \in 1..input[2] :
                 result.val.data[r][c]
                     = Power((r - 1) % 256, c - 1)
          /\ (input[1] <= 256 /\ input[2] >= 2)
             => \A r1, r2 \in 1..input[1] :
                    r1 # r2 => result.val.data[r1] # result.val.data[r2]

C23_Witness ==
    /\ op = "exp"
    /\ input = <<5, 20>>
    /\ log_table[5] * 20 >= 2 * 255
    /\ result.val = 235
    /\ result.val = Power(5, 20)

(* shards with every non-empty entry after the first K non-empty ones     *)
(* replaced by "other"                                                     *)
BeyondFirstK(codec, shards, other) ==
    LET picked == Positions(shards, TRUE, 1, Len(shards))
        k == codec.data_shard_count
    IN  [i \in 1..Len(shards) |->
            IF \E j \in (k + 1)..Len(picked) : picked[j] = i
            THEN other ELSE shards[i]]

(* C24: when decode returns Ok on an input with an empty entry, the       *)
(* result has N shards of the common length L, its parity shards (those   *)
(* present in the input included) are the parity encode computes from     *)
(* its data shards, and it is computed from the first K non-empty         *)
(* entries only: erasing or zeroing the others does not change it.         *)
C24_DecodeRecomputesParity ==
    (op = "decode" /\ IsOk(result) /\ EmptyCount(input) > 0)
    => /\ Len(result.val) = rs.total_shard_count
       /\ \A i \in 1..Len(result.val) :
              Len(result.val[i]) = LastLen(input)
       /\ encode(rs, result.val) = result
       /\ \A o \in 1..rs.parity_shard_count, j \in 1..LastLen(input) :
              result.val[rs.data_shard_count + o][j]
                  = ParitySum(rs, result.val, o, j, 1)
       /\ decode(rs, BeyondFirstK(rs, input, <<>>)) = result
       /\ decode(rs, BeyondFirstK(rs, input, Zeros(LastLen(input))))
              = result

C24_Witness ==
    /\ op = "decode"
    /\ IsOk(result)
    /\ EmptyCount(input) > 0
    /\ input[Len(input)] # <<>>
    /\ result.val[Len(input)] # input[Len(input)]
    /\ BeyondFirstK(rs, input, <<>>) # input

(* C25: when decode returns Ok, every data shard that was non-empty in    *)
(* the input is unchanged at its index of the result; and on every input  *)
(* decode accepts, the number of missing data shards is at most M, so     *)
(* matrix_rows.data[output_count] and outputs[output_count] stay inside   *)
(* the M-entry workspace.                                                  *)
C25_DecodeFrame ==
    (op = "decode")
    => /\ IsOk(result)
          => \A i \in 1..rs.data_shard_count :
                 input[i] # <<>> => result.val[i] = input[i]
       /\ IsOk(check_shard_sizes_for_decode(rs, input))
          => Len(Positions(input, FALSE, 1, rs.data_shard_count))
                 <= rs.parity_shard_count

C25_Witness ==
    /\ op = "decode"
    /\ IsOk(result)
    /\ rs.data_shard_count > rs.parity_shard_count
    /\ Len(Positions(input, FALSE, 1, rs.data_shard_count))
           = rs.parity_shard_count
    /\ \E i \in 1..rs.data_shard_count :
           input[i] # <<>> /\ result.val[i] = input[i]
    /\ result.val # input

=============================================================================
